---- MODULE Spec2Model ----
(***************************************************************************)
(* Model of framework/generator.py: the Task record, the CompactFramework  *)
(* document context and its three generation operations (generate,         *)
(* generate_standalone, generate_density_variants), over a small file      *)
(* system, and the auto-fit script that generate_density_variants embeds   *)
(* in every page it writes, as it runs in a browser.                       *)
(*                                                                         *)
(* Text is a sequence of lexemes.  A lexeme is one of the literal strings  *)
(* the code searches for or emits (a placeholder token, the split marker,  *)
(* a tag of a template) or an opaque chunk of text.  str.replace, str.split *)
(* and the `in` test are modelled on these sequences with Python's         *)
(* semantics (leftmost, non-overlapping, single pass).  White space of the *)
(* f-string templates is left out.                                         *)
(*                                                                         *)
(* generate_standalone is modelled with the block structure its two        *)
(* `else:` lines evidently intend (generator.py 360-363 and 389-409): the  *)
(* statement that follows each `else:` is its body.                        *)
(***************************************************************************)
EXTENDS Integers, Sequences, FiniteSets, TLC

VARIABLES
    title,          \* CompactFramework.title
    author,         \* CompactFramework.author
    date,           \* CompactFramework.date
    tasks,          \* CompactFramework.tasks, in add_task() order
    custom_styles,  \* CompactFramework.custom_styles
    files,          \* the file system: path -> text, for the paths that exist
    dirs,           \* the directories that exist
    last,           \* the last call: [op, arg, status, repeat]
    written,        \* the paths the last call wrote, in write order
    loaded,         \* a written variant page: its load event has been dispatched
    container,      \* document.querySelector('.watch-container') finds an element
    MathJax,        \* window.MathJax is defined when the load event is dispatched
    promise,        \* MathJax.startup.promise: "pending", "resolved", "rejected"
    reaction,       \* the callback given to promise.then(): "none", "registered", "run"
    timeout,        \* the setTimeout(autoFit, delay) timers set, pending or elapsed
    fontSize,       \* autoFit's local fontSize: <<n>> while autoFit runs, else <<>>
    overflow,       \* scrollHeight > clientHeight, as the loop last evaluated it
    body_fontSize,  \* the values assigned to document.body.style.fontSize, in order
    calls           \* the number of autoFit() calls made

\* the page in the browser
browser ==
    <<loaded, container, MathJax, promise, reaction, timeout, fontSize, overflow,
      body_fontSize, calls>>

vars ==
    <<title, author, date, tasks, custom_styles, files, dirs, last, written, browser>>

ctx == <<title, author, date, tasks, custom_styles>>

(***************************************************************************)
(* Bounds of the model.                                                    *)
(***************************************************************************)
MaxTasks == 4          \* tasks per context in SpecLayout
MaxStyleCalls == 1     \* add_custom_styles() calls per context in SpecLayout
MaxDensityTasks == 3   \* tasks per context in SpecDensity
MaxSplitTasks == 2     \* tasks per context in SpecSplit
MaxSolLen == 2         \* lexemes per solution in SpecSplit
MaxIOTasks == 2        \* tasks per context in Spec
MaxBucketTasks == 4    \* tasks per context in SpecBuckets
MaxTemplateTasks == 1  \* tasks per context in SpecTemplates
MaxFrameTasks == 2     \* tasks per context in SpecFrame
MaxFragments == 2      \* add_custom_styles() calls per context in SpecValues
MaxValueTasks == 1     \* tasks per context in SpecValues
MaxRerunTasks == 2     \* tasks per context in SpecRerun

(***************************************************************************)
(* Literals of the code.                                                   *)
(***************************************************************************)
PH_TITLE == "{{TITLE}}"
PH_AUTHOR == "{{AUTHOR}}"
PH_DATE == "{{DATE}}"
PH_CUSTOM_STYLES == "{{CUSTOM_STYLES}}"
PH_TASKS == "{{TASKS}}"
PH_CONTENT == "{{CONTENT}}"

Placeholders == {PH_TITLE, PH_AUTHOR, PH_DATE, PH_CUSTOM_STYLES, PH_TASKS, PH_CONTENT}

SPLIT_MARKER == "<hr class=\"split-point\">"
CONTINUED == "Continued..."
ZIGZAG == "zigzag"
NEWLINE == "\n"
CSS_LINK == "<link rel=\"stylesheet\" href=\"framework/styles.css\">"
BODY_TAG == "<body>"
HEAD_END == "</head>"
MATH_OPEN == "<div class=\"math-content\">"
TASK_ID_OPEN == "<div class=\"task-id\">"
TASK_NUMBER_OPEN == "<div class=\"task-number\">"
DIV_END == "</div>"

TEMPLATE_PATH == "framework/template.html"
STYLES_PATH == "framework/styles.css"
WATCH_STYLES_PATH == "framework/watch_styles.css"
OUTPUT_PATH == "output.html"
OUTPUT_DIR == "variants"
COMBINED_SHORT == "variants/combined_short.html"
MEDIUM_SINGLE == "variants/medium_single.html"
LONG_PART1 == "variants/long_split_part1.html"
LONG_PART2 == "variants/long_split_part2.html"

VariantFiles == {COMBINED_SHORT, MEDIUM_SINGLE, LONG_PART1, LONG_PART2}

(***************************************************************************)
(* str operations on lexeme sequences.                                     *)
(***************************************************************************)
\* the places where sub occurs in s
Occurrences(s, sub) ==
    {i \in 1..(Len(s) - Len(sub) + 1) : SubSeq(s, i, i + Len(sub) - 1) = sub}

\* the first of the places occ at or after i
Least(occ, i) == CHOOSE j \in occ : j >= i /\ \A m \in occ : m >= i => j <= m

\* s.replace(old, new), old non-empty: every non-overlapping occurrence,
\* found left to right; the inserted text is not scanned again.
RECURSIVE ReplaceFrom(_, _, _, _, _)
ReplaceAt(s, old, new, occ, i, j) ==
    SubSeq(s, i, j - 1) \o new \o ReplaceFrom(s, old, new, occ, j + Len(old))

ReplaceFrom(s, old, new, occ, i) ==
    IF \E j \in occ : j >= i THEN ReplaceAt(s, old, new, occ, i, Least(occ, i))
    ELSE SubSeq(s, i, Len(s))

Replace(s, old, new) == ReplaceFrom(s, old, new, Occurrences(s, old), 1)

\* s.split(sep), sep non-empty: the list of the parts between the occurrences
\* of sep, found left to right; one part (s itself) when sep does not occur.
RECURSIVE SplitFrom(_, _, _, _)
SplitAt(s, sep, occ, i, j) ==
    <<SubSeq(s, i, j - 1)>> \o SplitFrom(s, sep, occ, j + Len(sep))

SplitFrom(s, sep, occ, i) ==
    IF \E j \in occ : j >= i THEN SplitAt(s, sep, occ, i, Least(occ, i))
    ELSE <<SubSeq(s, i, Len(s))>>

Split(s, sep) == SplitFrom(s, sep, Occurrences(s, sep), 1)

\* sub in s
Contains(s, sub) == Occurrences(s, sub) # {}

\* sep.join(parts)
RECURSIVE Join(_, _)
Join(parts, sep) ==
    IF parts = <<>> THEN <<>>
    ELSE IF Len(parts) = 1 THEN parts[1]
    ELSE parts[1] \o sep \o Join(Tail(parts), sep)

(***************************************************************************)
(* TaskCategory, Task, create_task.                                        *)
(***************************************************************************)
TaskCategory == {"short", "medium", "long"}     \* the members, by value

Task(number, category, solution, visualization_svg, custom_class) ==
    [number |-> number, category |-> category, solution |-> solution,
     visualization_svg |-> visualization_svg, custom_class |-> custom_class]

Num(n) == ToString(n)

\* Task.to_html
to_html(t) ==
    LET all_classes == <<"task", "task-", t.category>> \o t.custom_class
        visualization_html ==
            IF t.visualization_svg # <<>>
            THEN <<"<div class=\"task-visualization\">">> \o t.visualization_svg \o <<DIV_END>>
            ELSE <<>>
    IN  <<"<div class=\"">> \o all_classes \o <<"\">">>
        \o <<"<div class=\"task-header\">">>
        \o <<TASK_NUMBER_OPEN, "Zadacha ", Num(t.number), DIV_END>>
        \o <<"<div class=\"task-category\">", t.category, DIV_END>>
        \o <<DIV_END>>
        \o <<"<div class=\"task-content\">", "<div class=\"task-solution\">">>
        \o t.solution
        \o <<DIV_END>>
        \o visualization_html
        \o <<DIV_END, DIV_END>>

\* category_map.get(category, TaskCategory.LONG): another default
DefaultToLong(category) == IF category \in TaskCategory THEN category ELSE "long"

\* category_map.get(category, TaskCategory.MEDIUM)
category_map_get(category) == IF category \in TaskCategory THEN category ELSE "medium"

create_task(number, category, solution, visualization_svg) ==
    Task(number, category_map_get(category), solution, visualization_svg, <<>>)

(***************************************************************************)
(* The file system.                                                        *)
(***************************************************************************)
Exists(fs, path) == path \in DOMAIN fs

\* open(path, 'a').write(text): the text is added to what the file holds
AppendWrite(fs, path, text) ==
    [p \in DOMAIN fs \cup {path} |->
        IF p = path THEN (IF p \in DOMAIN fs THEN fs[p] ELSE <<>>) \o text ELSE fs[p]]

\* open(path, 'w').write(text): the file is created or replaced
WriteFile(fs, path, text) ==
    [p \in DOMAIN fs \cup {path} |-> IF p = path THEN text ELSE fs[p]]

RECURSIVE WriteAll(_, _)
\* a list of <<path, text>> writes, applied in order
WriteAll(fs, ws) ==
    IF ws = <<>> THEN fs
    ELSE WriteAll(WriteFile(fs, ws[1][1], ws[1][2]), Tail(ws))

Paths(ws) == [i \in 1..Len(ws) |-> ws[i][1]]

(***************************************************************************)
(* CompactFramework: the context and _optimize_layout.                     *)
(***************************************************************************)
Context(t, a, d, ts, cs) ==
    [title |-> t, author |-> a, date |-> d, tasks |-> ts, custom_styles |-> cs]

self == Context(title, author, date, tasks, custom_styles)

OfCategory(ts, c) == SelectSeq(ts, LAMBDA t : t.category = c)

\* the buckets concatenated in the order long, medium, short
LongFirstLayout(ts) ==
    OfCategory(ts, "long") \o OfCategory(ts, "medium") \o OfCategory(ts, "short")

\* CompactFramework._optimize_layout: short, then medium, then long
_optimize_layout(ts) ==
    OfCategory(ts, "short") \o OfCategory(ts, "medium") \o OfCategory(ts, "long")

\* "\n".join(task.to_html() for task in optimized_tasks)
tasks_html(ts) ==
    LET optimized_tasks == _optimize_layout(ts)
    IN  Join([i \in 1..Len(optimized_tasks) |-> to_html(optimized_tasks[i])], <<NEWLINE>>)

\* generate(), lines 174-183: the template filled in
fill_template(template, c) ==
    LET h1 == Replace(template, <<PH_CUSTOM_STYLES>>,
                      IF c.custom_styles # <<>> THEN c.custom_styles ELSE <<>>)
        h2 == Replace(h1, <<PH_TITLE>>, c.title)
        h3 == Replace(h2, <<PH_AUTHOR>>, c.author)
        h4 == Replace(h3, <<PH_DATE>>, c.date)
    IN  Replace(h4, <<PH_TASKS>>, tasks_html(c.tasks))

\* The outcome of a call: what it returned or raised, the file system and the
\* directories it leaves, and the paths it wrote.
Outcome(status, fs, ds, ws) ==
    [status |-> status, files |-> fs, dirs |-> ds, written |-> ws]

Raised(fs, ds) == Outcome("error", fs, ds, <<>>)

\* generate() with the output opened in append mode
GenerateAppending(fs, ds, c) ==
    IF ~Exists(fs, TEMPLATE_PATH) THEN Raised(fs, ds)
    ELSE Outcome("ok",
                 AppendWrite(fs, OUTPUT_PATH, fill_template(fs[TEMPLATE_PATH], c)),
                 ds, <<OUTPUT_PATH>>)

\* generate() refusing a template that lacks one of its five placeholders
GenerateStrictTemplate(fs, ds, c) ==
    IF ~Exists(fs, TEMPLATE_PATH) THEN Raised(fs, ds)
    ELSE IF \E p \in Placeholders \ {PH_CONTENT} : ~Contains(fs[TEMPLATE_PATH], <<p>>)
    THEN Raised(fs, ds)
    ELSE Outcome("ok",
                 WriteFile(fs, OUTPUT_PATH, fill_template(fs[TEMPLATE_PATH], c)),
                 ds, <<OUTPUT_PATH>>)

\* CompactFramework.generate(output_path, template_path = None)
generate(fs, ds, c) ==
    IF ~Exists(fs, TEMPLATE_PATH) THEN Raised(fs, ds)
    ELSE Outcome("ok",
                 WriteFile(fs, OUTPUT_PATH, fill_template(fs[TEMPLATE_PATH], c)),
                 ds, <<OUTPUT_PATH>>)

\* generate_standalone(), lines 388-412: the generated document post-processed
standalone_html(html_content, css_content, watch_mode, theme) ==
    LET style == <<"<style>", NEWLINE>> \o css_content \o <<NEWLINE, "</style>">>
        h == IF watch_mode
             THEN Replace(
                    Replace(
                      Replace(html_content, <<BODY_TAG>>,
                              <<"<body class=\"theme-">> \o theme \o <<"\">">>),
                      <<CSS_LINK>>, <<>>),
                    <<HEAD_END>>, style \o <<NEWLINE, HEAD_END>>)
             ELSE Replace(html_content, <<CSS_LINK>>, style)
    IN  Replace(h, <<PH_CUSTOM_STYLES>>, <<>>)

\* CompactFramework.generate_standalone(output_path, None, watch_mode, theme)
generate_standalone(fs, ds, c, watch_mode, theme) ==
    LET css_path == IF watch_mode THEN WATCH_STYLES_PATH ELSE STYLES_PATH
    IN  IF ~Exists(fs, css_path) THEN Raised(fs, ds)
        ELSE LET g == generate(fs, ds, c)
             IN  IF g.status # "ok" THEN g
                 ELSE Outcome("ok",
                        WriteFile(g.files, OUTPUT_PATH,
                            standalone_html(g.files[OUTPUT_PATH], fs[css_path],
                                            watch_mode, theme)),
                        ds, g.written \o <<OUTPUT_PATH>>)

(***************************************************************************)
(* generate_density_variants.                                              *)
(***************************************************************************)
\* base_template, lines 210-258 (an f-string: css_content and variant_class
\* are interpolated, {{{{CONTENT}}}} is the literal {{CONTENT}})
base_template(css_content, variant_class) ==
    <<"<!DOCTYPE html>", "<html>", "<head>", "<title>Watch Task</title>",
      "<script>AUTO-FIT</script>", "<style>">>
    \o css_content
    \o <<"</style>", HEAD_END, "<body class=\"">> \o variant_class \o <<"\">">>
    \o <<"<div class=\"watch-container\">", PH_CONTENT, DIV_END, "</body>", "</html>">>

\* one pane: the task id line and the math content
pane(open, id, math) ==
    <<open, TASK_ID_OPEN>> \o id \o <<DIV_END, MATH_OPEN>> \o math \o <<DIV_END, DIV_END>>

\* variant_class == 'zigzag'
IsZigzagExact(variant_class) == variant_class = <<ZIGZAG>>

\* 'zigzag' in variant_class
is_zigzag(variant_class) == Contains(variant_class, <<ZIGZAG>>)

\* lines 265-296: the two-pane composite of the first two short tasks
short_content(t1, t2, variant_class) ==
    IF is_zigzag(variant_class)
    THEN <<"<div class=\"layout-zigzag\">",
           "<div class=\"zigzag-separator\">", "<svg>zigzag-line</svg>", DIV_END>>
         \o pane("<div class=\"task-top\">", <<Num(t1.number)>>, t1.solution)
         \o pane("<div class=\"task-bottom\">", <<Num(t2.number)>>, t2.solution)
         \o <<DIV_END>>
    ELSE <<"<div class=\"layout-vertical-split\">">>
         \o pane("<div class=\"task-left\">", <<"#", Num(t1.number)>>, t1.solution)
         \o pane("<div class=\"task-right\">", <<"#", Num(t2.number)>>, t2.solution)
         \o <<DIV_END>>

\* lines 305-312, 325-332, 337-344: one task alone in an adaptive container
adaptive_content(id, math) ==
    <<"<div class=\"layout-adaptive\">">>
    \o pane("<div class=\"adaptive-content\">", id, math)
    \o <<DIV_END>>

\* parts without the fallback text for a solution that has no marker
SplitNoFallback(solution) ==
    LET parts == Split(solution, <<SPLIT_MARKER>>)
    IN  IF Len(parts) < 2 THEN <<solution, <<>>>> ELSE parts

\* lines 320-322: parts of the long task's solution
split_parts(solution) ==
    LET parts == Split(solution, <<SPLIT_MARKER>>)
    IN  IF Len(parts) < 2 THEN <<solution, <<CONTINUED>>>> ELSE parts

\* the task list without the category filter
AllAsShort(ts) == ts

\* line 261
short_tasks(ts) == OfCategory(ts, "short")

\* the medium tasks, the one added last first
MediumLastFirst(ts) ==
    LET m == OfCategory(ts, "medium")
    IN  [i \in 1..Len(m) |-> m[Len(m) + 1 - i]]

\* line 302
medium_tasks(ts) == OfCategory(ts, "medium")

\* the long bucket taken only when the medium bucket is empty
LongUnlessMedium(ts) ==
    IF OfCategory(ts, "medium") # <<>> THEN <<>> ELSE OfCategory(ts, "long")

\* line 317
long_tasks(ts) == OfCategory(ts, "long")

\* lines 260-346: the files written, in order, as <<path, text>>
density_writes(ts, css_content, variant_class) ==
    LET page(content) ==
            Replace(base_template(css_content, variant_class), <<PH_CONTENT>>, content)
        short ==
            IF Len(short_tasks(ts)) >= 2
            THEN <<<<COMBINED_SHORT,
                     page(short_content(short_tasks(ts)[1], short_tasks(ts)[2],
                                        variant_class))>>>>
            ELSE <<>>
        medium ==
            IF medium_tasks(ts) # <<>>
            THEN LET t == medium_tasks(ts)[1]
                 IN  <<<<MEDIUM_SINGLE,
                         page(adaptive_content(<<"Task ", Num(t.number)>>, t.solution))>>>>
            ELSE <<>>
        long ==
            IF long_tasks(ts) # <<>>
            THEN LET t == long_tasks(ts)[1]
                     parts == split_parts(t.solution)
                 IN  <<<<LONG_PART1,
                         page(adaptive_content(<<"Task ", Num(t.number), " (1/2)">>,
                                               parts[1]))>>,
                       <<LONG_PART2,
                         page(adaptive_content(<<"Task ", Num(t.number), " (2/2)">>,
                                               IF Len(parts) > 1 THEN parts[2] ELSE <<>>))>>>>
            ELSE <<>>
    IN  short \o medium \o long

\* a call that first removes the variant files it is not going to write
DensityClearsStale(fs, ds, c, variant_class) ==
    LET made == ds \cup {OUTPUT_DIR}
    IN  IF ~Exists(fs, WATCH_STYLES_PATH) THEN Raised(fs, made)
        ELSE LET ws == density_writes(c.tasks, fs[WATCH_STYLES_PATH], variant_class)
                 stale == {p \in VariantFiles \cap DOMAIN fs :
                              \A i \in 1..Len(ws) : ws[i][1] # p}
                 kept == [p \in DOMAIN fs \ stale |-> fs[p]]
             IN  Outcome("ok", WriteAll(kept, ws), made, Paths(ws))

\* a call that raises when no bucket has enough tasks for a file
DensityFailsWhenEmpty(fs, ds, c, variant_class) ==
    LET made == ds \cup {OUTPUT_DIR}
    IN  IF ~Exists(fs, WATCH_STYLES_PATH) THEN Raised(fs, made)
        ELSE LET ws == density_writes(c.tasks, fs[WATCH_STYLES_PATH], variant_class)
             IN  IF ws = <<>> THEN Raised(fs, made)
                 ELSE Outcome("ok", WriteAll(fs, ws), made, Paths(ws))

\* CompactFramework.generate_density_variants(output_dir, variant_class)
generate_density_variants(fs, ds, c, variant_class) ==
    LET made == ds \cup {OUTPUT_DIR}                       \* lines 202-203
    IN  IF ~Exists(fs, WATCH_STYLES_PATH) THEN Raised(fs, made)
        ELSE LET ws == density_writes(c.tasks, fs[WATCH_STYLES_PATH], variant_class)
             IN  Outcome("ok", WriteAll(fs, ws), made, Paths(ws))

(***************************************************************************)
(* The operations as actions.                                              *)
(***************************************************************************)
Called(op, arg, status, repeat) ==
    [op |-> op, arg |-> arg, status |-> status, repeat |-> repeat]

GenOps == {"generate", "generate_standalone", "generate_density_variants"}

\* framework.add_task(create_task(number, category, solution, visualization_svg))
AddTask(number, category, solution, visualization_svg) ==
    /\ tasks' = Append(tasks, create_task(number, category, solution, visualization_svg))
    /\ last' = Called("add_task", <<category>>, "ok", FALSE)
    /\ written' = <<>>
    /\ UNCHANGED <<title, author, date, custom_styles, files, dirs, browser>>

\* framework.add_custom_styles(styles)
AddCustomStyles(styles) ==
    /\ custom_styles' = custom_styles \o styles \o <<NEWLINE>>
    /\ last' = Called("add_custom_styles", styles, "ok", FALSE)
    /\ written' = <<>>
    /\ UNCHANGED <<title, author, date, tasks, files, dirs, browser>>

\* a generation call that uses the task list up
GenerationConsuming(op, arg, out) ==
    /\ files' = out.files
    /\ dirs' = out.dirs
    /\ written' = out.written
    /\ last' = Called(op, arg, out.status, FALSE)
    /\ tasks' = <<>>
    /\ UNCHANGED <<title, author, date, custom_styles, browser>>

\* a generation call and what it leaves behind
Generation(op, arg, out) ==
    /\ files' = out.files
    /\ dirs' = out.dirs
    /\ written' = out.written
    /\ last' = Called(op, arg, out.status,
                      /\ last.op = op
                      /\ last.arg = arg
                      /\ last.status = "ok"
                      /\ out.status = "ok")
    /\ UNCHANGED <<ctx, browser>>

\* framework = CompactFramework(title, author, date): a new context, the
\* files of earlier calls stay where they are
NewFramework ==
    /\ tasks' = <<>>
    /\ custom_styles' = <<>>
    /\ last' = Called("__init__", <<>>, "ok", FALSE)
    /\ written' = <<>>
    /\ UNCHANGED <<title, author, date, files, dirs, browser>>

Generate ==
    Generation("generate", <<>>, generate(files, dirs, self))

GenerateStandalone(watch_mode, theme) ==
    Generation("generate_standalone",
               <<IF watch_mode THEN "watch" ELSE "standard">> \o theme,
               generate_standalone(files, dirs, self, watch_mode, theme))

GenerateDensityVariants(variant_class) ==
    Generation("generate_density_variants", variant_class,
               generate_density_variants(files, dirs, self, variant_class))

(***************************************************************************)
(* The auto-fit script of base_template (lines 217-248), in a page opened  *)
(* in a browser.  Script code runs to completion: while autoFit is running *)
(* no other callback starts.                                               *)
(***************************************************************************)
StartSize == 100       \* let fontSize = 100
minSize == 40          \* const minSize = 40
ShrinkStep == 2        \* fontSize -= 2
SettleDelay == 500     \* setTimeout(autoFit, 500)

running == fontSize # <<>>

\* no page opened: nothing of the script has run
NotOpened(found, engine, startup) ==
    /\ loaded = FALSE
    /\ container = found
    /\ MathJax = engine
    /\ promise = startup
    /\ reaction = "none"
    /\ timeout = <<>>
    /\ fontSize = <<>>
    /\ overflow = FALSE
    /\ body_fontSize = <<>>
    /\ calls = 0

\* autoFit() is entered: let fontSize = 100
EnterAutoFit ==
    /\ fontSize' = <<StartSize>>
    /\ calls' = calls + 1

\* the load handler with autoFit() called whether or not MathJax is there
LoadFitsAtOnce ==
    /\ ~loaded
    /\ loaded' = TRUE
    /\ IF ~container
       THEN UNCHANGED <<reaction, fontSize, calls>>
       ELSE EnterAutoFit /\ UNCHANGED reaction
    /\ UNCHANGED <<container, MathJax, promise, timeout, overflow, body_fontSize>>
    /\ UNCHANGED <<ctx, files, dirs, last, written>>

\* window 'load' listener, lines 218-247
Load ==
    /\ ~loaded
    /\ loaded' = TRUE
    /\ IF ~container
       THEN UNCHANGED <<reaction, fontSize, calls>>                 \* return
       ELSE IF MathJax
            THEN reaction' = "registered" /\ UNCHANGED <<fontSize, calls>>
            ELSE EnterAutoFit /\ UNCHANGED reaction
    /\ UNCHANGED <<container, MathJax, promise, timeout, overflow, body_fontSize>>
    /\ UNCHANGED <<ctx, files, dirs, last, written>>

\* MathJax.startup.promise settles
PromiseSettles(outcome) ==
    /\ ~running
    /\ MathJax
    /\ promise = "pending"
    /\ promise' = outcome
    /\ UNCHANGED <<loaded, container, MathJax, reaction, timeout, fontSize, overflow,
                   body_fontSize, calls>>
    /\ UNCHANGED <<ctx, files, dirs, last, written>>

\* the then() callback, lines 241-243: setTimeout(autoFit, 500)
StartupDone ==
    /\ ~running
    /\ reaction = "registered"
    /\ promise = "resolved"
    /\ reaction' = "run"
    /\ timeout' = Append(timeout, [delay |-> SettleDelay, elapsed |-> FALSE])
    /\ UNCHANGED <<loaded, container, MathJax, promise, fontSize, overflow,
                   body_fontSize, calls>>
    /\ UNCHANGED <<ctx, files, dirs, last, written>>

\* a timer's delay has elapsed: its callback autoFit is called
TimerFires ==
    /\ ~running
    /\ \E i \in 1..Len(timeout) :
          /\ ~timeout[i].elapsed
          /\ timeout' = [timeout EXCEPT ![i].elapsed = TRUE]
    /\ EnterAutoFit
    /\ UNCHANGED <<loaded, container, MathJax, promise, reaction, overflow, body_fontSize>>
    /\ UNCHANGED <<ctx, files, dirs, last, written>>

\* the loop without its floor: while (scrollHeight > clientHeight)
ShrinkWhileOverflowing(overflows) ==
    /\ running
    /\ overflow' = overflows
    /\ IF overflows
       THEN /\ fontSize' = <<fontSize[1] - ShrinkStep>>
            /\ body_fontSize' = Append(body_fontSize, fontSize[1] - ShrinkStep)
       ELSE /\ fontSize' = <<>>
            /\ UNCHANGED body_fontSize
    /\ UNCHANGED <<loaded, container, MathJax, promise, reaction, timeout, calls>>
    /\ UNCHANGED <<ctx, files, dirs, last, written>>

\* one evaluation of the while condition, lines 230-233, and the loop body
\* or the return it leads to
LoopStep(overflows) ==
    /\ running
    /\ overflow' = overflows
    /\ IF overflows /\ fontSize[1] > minSize
       THEN /\ fontSize' = <<fontSize[1] - ShrinkStep>>
            /\ body_fontSize' = Append(body_fontSize, fontSize[1] - ShrinkStep)
       ELSE /\ fontSize' = <<>>
            /\ UNCHANGED body_fontSize
    /\ UNCHANGED <<loaded, container, MathJax, promise, reaction, timeout, calls>>
    /\ UNCHANGED <<ctx, files, dirs, last, written>>

(***************************************************************************)
(* Inputs.                                                                 *)
(***************************************************************************)
\* a template with the five placeholders of generate(), the style-sheet link
\* and the tags generate_standalone() looks for
StdTemplate ==
    <<"<html>", "<head>", "<title>", PH_TITLE, "</title>", CSS_LINK,
      "<style>", PH_CUSTOM_STYLES, "</style>", HEAD_END, BODY_TAG,
      PH_AUTHOR, PH_DATE, PH_TASKS, "</body>", "</html>">>

\* a template that holds, of the tokens, those of the set S
TemplateWith(S) ==
    LET opt(p) == IF p \in S THEN <<p>> ELSE <<>>
    IN  <<"<html>", "<head>", "<title>">> \o opt(PH_TITLE) \o <<"</title>", CSS_LINK, "<style>">>
        \o opt(PH_CUSTOM_STYLES) \o <<"</style>", HEAD_END, BODY_TAG>>
        \o opt(PH_AUTHOR) \o opt(PH_DATE) \o opt(PH_TASKS) \o opt(PH_CONTENT)
        \o <<"</body>", "</html>">>

\* the texts of styles.css and watch_styles.css
StylesCss == <<"styles.css text">>
WatchCss == <<"watch_styles.css text">>

\* the template and the two style sheets, all present
AllResources ==
    [p \in {TEMPLATE_PATH, STYLES_PATH, WATCH_STYLES_PATH} |->
        IF p = TEMPLATE_PATH THEN StdTemplate
        ELSE IF p = STYLES_PATH THEN StylesCss ELSE WatchCss]

Without(fs, path) == [p \in DOMAIN fs \ {path} |-> fs[p]]

\* the resource files that exist: all of them, or all but one
Environments ==
    {AllResources} \cup {Without(AllResources, p) : p \in DOMAIN AllResources}

DefaultTitle == <<"Math work">>
DefaultAuthor == <<"Student">>

\* all texts over an alphabet, up to n lexemes
RECURSIVE Texts(_, _)
Texts(alphabet, n) ==
    IF n = 0 THEN {<<>>}
    ELSE LET shorter == Texts(alphabet, n - 1)
         IN  shorter \cup {Append(s, x) : s \in shorter, x \in alphabet}

LayoutTokens == {"short", "medium", "long", "huge", "Short"}
PlainSolutions == {<<"a">>, <<"b">>}
SplitSolutions == Texts({"a", SPLIT_MARKER}, MaxSolLen)
Variants == {<<"layout-", ZIGZAG>>, <<ZIGZAG>>, <<"layout-vertical-split">>, <<"ZIGZAG">>}
TokenSolutions == {<<"a">>, <<PH_TITLE, "b">>}
StyleFragments == {<<"p{}">>}
Themes == {<<"dark">>}
StyleTexts == {<<"p{}">>, <<"h1{}">>, <<"/*", PH_TITLE, "*/">>}
Titles == {DefaultTitle, <<"About ", PH_TASKS>>}
ContentSolutions == {<<"a">>, <<PH_CONTENT, "a">>}
WatchSheets == {WatchCss, <<"/*", PH_CONTENT, "*/">> \o WatchCss}

(***************************************************************************)
(* Specifications.                                                         *)
(***************************************************************************)
\* the state after CompactFramework(title, author, date) in an environment
Constructed(t, a, d, env) ==
    /\ title = t
    /\ author = a
    /\ date = d
    /\ tasks = <<>>
    /\ custom_styles = <<>>
    /\ files = env
    /\ dirs = {}
    /\ last = Called("__init__", <<>>, "ok", FALSE)
    /\ written = <<>>
    /\ NotOpened(FALSE, FALSE, "none")

\* Every generation operation, in every environment.
Init ==
    \E env \in Environments : Constructed(DefaultTitle, DefaultAuthor, <<>>, env)

Next ==
    \/ \E c \in {"short", "long"}, s \in TokenSolutions :
          /\ Len(tasks) < MaxIOTasks
          /\ AddTask(Len(tasks) + 1, c, s, <<>>)
    \/ Generate
    \/ \E w \in BOOLEAN, th \in Themes : GenerateStandalone(w, th)
    \/ GenerateDensityVariants(<<"v1-standard">>)

Spec == Init /\ [][Next]_vars

\* Single-page assembly: task lists of every category order, one template.
InitLayout == Constructed(DefaultTitle, DefaultAuthor, <<>>, AllResources)

NextLayout ==
    \/ \E c \in LayoutTokens :
          /\ Len(tasks) < MaxTasks
          /\ AddTask(Len(tasks) + 1, c, <<"a">>, <<>>)
    \/ \E s \in StyleFragments :
          /\ Len(custom_styles) < 2 * MaxStyleCalls
          /\ AddCustomStyles(s)
    \/ Generate

SpecLayout == InitLayout /\ [][NextLayout]_vars

\* Density variants: task lists of every category order, every variant token.
InitDensity == Constructed(DefaultTitle, DefaultAuthor, <<>>, AllResources)

NextDensity ==
    \/ \E c \in TaskCategory, s \in PlainSolutions :
          /\ Len(tasks) < MaxDensityTasks
          /\ AddTask(Len(tasks) + 1, c, s, <<>>)
    \/ \E v \in Variants : GenerateDensityVariants(v)

SpecDensity == InitDensity /\ [][NextDensity]_vars

\* The split of the long task: every solution text with and without markers.
InitSplit == Constructed(DefaultTitle, DefaultAuthor, <<>>, AllResources)

NextSplit ==
    \/ \E s \in SplitSolutions :
          /\ Len(tasks) < MaxSplitTasks
          /\ AddTask(Len(tasks) + 1, "long", s, <<>>)
    \/ GenerateDensityVariants(<<"v1-standard">>)

SpecSplit == InitSplit /\ [][NextSplit]_vars

\* The buckets of one call: every mix of categories, up to four tasks.
InitBuckets == Constructed(DefaultTitle, DefaultAuthor, <<>>, AllResources)

NextBuckets ==
    \/ \E c \in TaskCategory :
          /\ Len(tasks) < MaxBucketTasks
          /\ AddTask(Len(tasks) + 1, c, <<"a">>, <<>>)
    \/ GenerateDensityVariants(<<"v1-standard">>)

SpecBuckets == InitBuckets /\ [][NextBuckets]_vars

\* One context used for many calls: tasks and styles added between
\* generation calls of all three kinds.
InitFrame == Constructed(DefaultTitle, DefaultAuthor, <<>>, AllResources)

NextFrame ==
    \/ \E c \in {"short", "long"} :
          /\ Len(tasks) < MaxFrameTasks
          /\ AddTask(Len(tasks) + 1, c, <<"a">>, <<>>)
    \/ \E s \in StyleFragments :
          /\ custom_styles = <<>>
          /\ AddCustomStyles(s)
    \/ Generate
    \/ \E w \in BOOLEAN, th \in Themes : GenerateStandalone(w, th)
    \/ GenerateDensityVariants(<<"v1-standard">>)

SpecFrame == InitFrame /\ [][NextFrame]_vars

\* Values that hold tokens: style fragments in every call order, a title,
\* a solution and a style sheet with the text of a placeholder.
InitValues ==
    \E t \in Titles, sheet \in WatchSheets :
        Constructed(t, DefaultAuthor, <<>>,
                    [AllResources EXCEPT ![WATCH_STYLES_PATH] = sheet])

NextValues ==
    \/ \E s \in StyleTexts :
          /\ Cardinality(Occurrences(custom_styles, <<NEWLINE>>)) < MaxFragments
          /\ AddCustomStyles(s)
    \/ \E s \in ContentSolutions :
          /\ Len(tasks) < MaxValueTasks
          /\ AddTask(Len(tasks) + 1, "medium", s, <<>>)
    \/ Generate
    \/ GenerateDensityVariants(<<"v1-standard">>)

SpecValues == InitValues /\ [][NextValues]_vars

\* One output directory used by several frameworks, each with its own task
\* list, one after the other.
InitRerun == Constructed(DefaultTitle, DefaultAuthor, <<>>, AllResources)

NextRerun ==
    \/ \E c \in TaskCategory :
          /\ Len(tasks) < MaxRerunTasks
          /\ AddTask(Len(tasks) + 1, c, <<"a">>, <<>>)
    \/ NewFramework
    \/ GenerateDensityVariants(<<"v1-standard">>)

SpecRerun == InitRerun /\ [][NextRerun]_vars

\* The tolerated inputs: a template with any subset of the tokens (the
\* {{CONTENT}} token is one generate() does not know), a task with an unknown
\* category token, a long task without split marker.
DefaultDate == <<"2025">>

InitTemplates ==
    \E S \in SUBSET Placeholders :
        Constructed(DefaultTitle, DefaultAuthor, DefaultDate,
                    [AllResources EXCEPT ![TEMPLATE_PATH] = TemplateWith(S)])

NextTemplates ==
    \/ \E c \in {"huge", "long"} :
          /\ Len(tasks) < MaxTemplateTasks
          /\ AddTask(Len(tasks) + 1, c, <<"a">>, <<>>)
    \/ \E s \in StyleFragments :
          /\ custom_styles = <<>>
          /\ AddCustomStyles(s)
    \/ Generate
    \/ \E w \in BOOLEAN, th \in Themes : GenerateStandalone(w, th)
    \/ GenerateDensityVariants(<<"v1-standard">>)

SpecTemplates == InitTemplates /\ [][NextTemplates]_vars

\* A variant page opened in a browser: with or without the container, with
\* or without MathJax, every overflow behaviour.
InitAutoFit ==
    /\ title = DefaultTitle
    /\ author = DefaultAuthor
    /\ date = <<>>
    /\ tasks = <<>>
    /\ custom_styles = <<>>
    /\ files = AllResources
    /\ dirs = {}
    /\ last = Called("__init__", <<>>, "ok", FALSE)
    /\ written = <<>>
    /\ \E found \in BOOLEAN, engine \in BOOLEAN :
          \E startup \in (IF engine THEN {"pending", "resolved"} ELSE {"none"}) :
              NotOpened(found, engine, startup)

NextAutoFit ==
    \/ Load
    \/ \E outcome \in {"resolved", "rejected"} : PromiseSettles(outcome)
    \/ StartupDone
    \/ TimerFires
    \/ \E overflows \in BOOLEAN : LoopStep(overflows)

SpecAutoFit == InitAutoFit /\ [][NextAutoFit]_vars

(***************************************************************************)
(* Reading a written document back: what the properties below observe.     *)
(***************************************************************************)
Range(f) == {f[i] : i \in DOMAIN f}

Positions(s, x) == {i \in 1..Len(s) : s[i] = x}

\* the elements of a set of numbers, in increasing order
Ascending(S) ==
    [k \in 1..Cardinality(S) |-> CHOOSE i \in S : Cardinality({j \in S : j <= i}) = k]

\* the text of the first math-content element that opens at or after place i
MathAfter(s, i) ==
    LET open == Least(Positions(s, MATH_OPEN), i)
    IN  SubSeq(s, open + 1, Least(Positions(s, DIV_END), open) - 1)

\* the texts of the math-content elements of a document, in document order
MathContents(s) ==
    LET opens == Ascending(Positions(s, MATH_OPEN))
    IN  [k \in 1..Len(opens) |-> MathAfter(s, opens[k])]

PaneKinds ==
    {"<div class=\"task-top\">", "<div class=\"task-bottom\">",
     "<div class=\"task-left\">", "<div class=\"task-right\">"}

\* the panes of a two-pane document, in document order: kind and math content
Panes(s) ==
    LET opens == Ascending({i \in 1..Len(s) : s[i] \in PaneKinds})
    IN  [k \in 1..Len(opens) |-> <<s[opens[k]], MathAfter(s, opens[k])>>]

\* the task numbers of the rendered task blocks of a page, in document order
RenderedNumbers(s) ==
    LET opens == Ascending(Positions(s, TASK_NUMBER_OPEN))
    IN  [k \in 1..Len(opens) |-> s[opens[k] + 2]]

\* the places of the tasks of a category, in add_task() order
PlacesOf(c) == Ascending({i \in 1..Len(tasks) : tasks[i].category = c})

Returned(op) == last.op = op /\ last.status = "ok"

(***************************************************************************)
(* C1: the task blocks of the page generate() writes are a stable          *)
(* partition of the task list: every task is rendered exactly once, short  *)
(* tasks come before medium tasks and medium before long, and two tasks of *)
(* one category keep their add_task() order.                               *)
(***************************************************************************)
CategoryRank(c) == IF c = "short" THEN 1 ELSE IF c = "medium" THEN 2 ELSE 3

\* the place in the task list of the task rendered with number n
PlaceOfNumber(n) == CHOOSE k \in 1..Len(tasks) : Num(tasks[k].number) = n

C1_StablePartition ==
    Returned("generate") =>
        LET r == RenderedNumbers(files[OUTPUT_PATH])
        IN  /\ Len(r) = Len(tasks)
            /\ \A k \in 1..Len(tasks) :
                  Cardinality({i \in 1..Len(r) : r[i] = Num(tasks[k].number)}) = 1
            /\ \A i, j \in 1..Len(r) :
                  i < j =>
                    LET a == PlaceOfNumber(r[i])
                        b == PlaceOfNumber(r[j])
                    IN  /\ CategoryRank(tasks[a].category) <= CategoryRank(tasks[b].category)
                        /\ tasks[a].category = tasks[b].category => a < b

\* a page generated from long, short, medium, short: the layout reorders
C1_Witness ==
    /\ Returned("generate")
    /\ Len(tasks) = 4
    /\ [i \in 1..4 |-> tasks[i].category] = <<"long", "short", "medium", "short">>
    /\ RenderedNumbers(files[OUTPUT_PATH]) = <<"2", "4", "3", "1">>

(***************************************************************************)
(* C2: create_task() never fails on the category token: a token outside    *)
(* short, medium, long gives a medium task, a recognised token gives a     *)
(* task of exactly that category.                                          *)
(***************************************************************************)
C2_CategoryDefault ==
    last.op = "add_task" =>
        /\ last.status = "ok"
        /\ tasks # <<>>
        /\ tasks[Len(tasks)].category =
              IF last.arg[1] \in {"short", "medium", "long"} THEN last.arg[1] ELSE "medium"

C2_Witness ==
    /\ last.op = "add_task"
    /\ last.arg = <<"huge">>
    /\ tasks[Len(tasks)].category = "medium"

(***************************************************************************)
(* C3: generate_density_variants() writes combined_short.html exactly when *)
(* the task list holds at least two short tasks, and the math contents of  *)
(* the file are then the solutions of the first two short tasks, in that   *)
(* order, and nothing else.                                                *)
(***************************************************************************)
C3_CombinedShort ==
    Returned("generate_density_variants") =>
        LET short == PlacesOf("short")
        IN  /\ COMBINED_SHORT \in Range(written) <=> Len(short) >= 2
            /\ Len(short) >= 2 =>
                  MathContents(files[COMBINED_SHORT])
                    = <<tasks[short[1]].solution, tasks[short[2]].solution>>

\* three short tasks, the third with another solution than the second
C3_Witness ==
    /\ Returned("generate_density_variants")
    /\ Len(PlacesOf("short")) = 3
    /\ tasks[1].solution = <<"a">>
    /\ tasks[2].solution = <<"b">>
    /\ tasks[3].solution = <<"a">>
    /\ MathContents(files[COMBINED_SHORT]) = <<<<"a">>, <<"b">>>>

(***************************************************************************)
(* C8: combined_short.html holds the top/bottom pane pair, with the        *)
(* zig-zag separator, exactly when the variant token contains 'zigzag',    *)
(* and the left/right pane pair otherwise; either way the first pane holds *)
(* the first short task and the second pane the second short task.         *)
(***************************************************************************)
C8_VariantLayout ==
    (Returned("generate_density_variants") /\ Len(PlacesOf("short")) >= 2) =>
        LET short == PlacesOf("short")
            page == files[COMBINED_SHORT]
            first == tasks[short[1]].solution
            second == tasks[short[2]].solution
            zigzag == \E i \in 1..Len(last.arg) : last.arg[i] = "zigzag"
        IN  /\ zigzag =>
                 /\ Panes(page) = << <<"<div class=\"task-top\">", first>>,
                                     <<"<div class=\"task-bottom\">", second>> >>
                 /\ Positions(page, "<div class=\"zigzag-separator\">") # {}
            /\ ~zigzag =>
                 /\ Panes(page) = << <<"<div class=\"task-left\">", first>>,
                                     <<"<div class=\"task-right\">", second>> >>
                 /\ Positions(page, "<div class=\"zigzag-separator\">") = {}

\* the token layout-zigzag, which contains zigzag without being it
C8_Witness ==
    /\ Returned("generate_density_variants")
    /\ last.arg = <<"layout-", "zigzag">>
    /\ Len(PlacesOf("short")) >= 2
    /\ tasks[PlacesOf("short")[1]].solution # tasks[PlacesOf("short")[2]].solution
    /\ Panes(files[COMBINED_SHORT])[1][1] = "<div class=\"task-top\">"

(***************************************************************************)
(* C10: one generate_density_variants() call decides per bucket: it writes *)
(* combined_short.html iff there are two short tasks, medium_single.html   *)
(* iff there is a medium task, both long_split parts iff there is a long   *)
(* task; and what it writes for a bucket is what it would write were the   *)
(* tasks of the other two categories not in the list.                      *)
(***************************************************************************)
FilesOf(c) ==
    IF c = "short" THEN {COMBINED_SHORT}
    ELSE IF c = "medium" THEN {MEDIUM_SINGLE}
    ELSE {LONG_PART1, LONG_PART2}

OnlyCategory(c) == [k \in 1..Len(PlacesOf(c)) |-> tasks[PlacesOf(c)[k]]]

C10_BucketsIndependent ==
    Returned("generate_density_variants") =>
        /\ Range(written) =
              (IF Len(PlacesOf("short")) >= 2 THEN {COMBINED_SHORT} ELSE {})
              \cup (IF Len(PlacesOf("medium")) >= 1 THEN {MEDIUM_SINGLE} ELSE {})
              \cup (IF Len(PlacesOf("long")) >= 1 THEN {LONG_PART1, LONG_PART2} ELSE {})
        /\ \A c \in {"short", "medium", "long"} :
              LET alone == generate_density_variants(
                               AllResources, {},
                               Context(title, author, date, OnlyCategory(c), custom_styles),
                               last.arg)
              IN  /\ Range(alone.written) = Range(written) \cap FilesOf(c)
                  /\ \A f \in Range(alone.written) : alone.files[f] = files[f]

\* a long, a short and a medium task: the short bucket alone stays unwritten
C10_Witness ==
    /\ Returned("generate_density_variants")
    /\ [i \in 1..Len(tasks) |-> tasks[i].category] = <<"long", "short", "medium">>
    /\ Range(written) = {MEDIUM_SINGLE, LONG_PART1, LONG_PART2}

(***************************************************************************)
(* The first long task's solution around its split markers.                *)
(***************************************************************************)
FirstLong == tasks[PlacesOf("long")[1]]

Markers(solution) == Ascending(Positions(solution, SPLIT_MARKER))

BeforeFirstMarker(solution) == SubSeq(solution, 1, Markers(solution)[1] - 1)

AfterFirstMarker(solution) ==
    SubSeq(solution, Markers(solution)[1] + 1, Len(solution))

LongSplitWritten ==
    /\ Returned("generate_density_variants")
    /\ Len(PlacesOf("long")) >= 1

(***************************************************************************)
(* C4: for the first long task, with exactly one split marker in its       *)
(* solution the math content of long_split_part1.html is the text before   *)
(* the marker and that of long_split_part2.html the text after it; with no *)
(* marker part 1 holds the whole solution and part 2 'Continued...'.       *)
(***************************************************************************)
C4_SplitAtMarker ==
    LongSplitWritten =>
        LET solution == FirstLong.solution
            part1 == MathContents(files[LONG_PART1])
            part2 == MathContents(files[LONG_PART2])
        IN  /\ Len(Markers(solution)) = 1 =>
                 /\ part1 = <<BeforeFirstMarker(solution)>>
                 /\ part2 = <<AfterFirstMarker(solution)>>
            /\ Len(Markers(solution)) = 0 =>
                 /\ part1 = <<solution>>
                 /\ part2 = << <<"Continued...">> >>

\* one marker, after the text, in the first of two long tasks
C4_Witness ==
    /\ LongSplitWritten
    /\ Len(tasks) = 2
    /\ tasks[1].solution = <<"a", SPLIT_MARKER>>
    /\ tasks[2].solution = <<SPLIT_MARKER, "a">>
    /\ MathContents(files[LONG_PART1]) = << <<"a">> >>
    /\ MathContents(files[LONG_PART2]) = << <<>> >>

(***************************************************************************)
(* C5: with two or more split markers in the first long task's solution,   *)
(* long_split_part1.html holds the text before the first marker and        *)
(* long_split_part2.html everything after the first marker, later markers  *)
(* and the text after them included.                                       *)
(***************************************************************************)
C5_OnlyFirstMarker ==
    (LongSplitWritten /\ Len(Markers(FirstLong.solution)) >= 2) =>
        /\ MathContents(files[LONG_PART1]) = <<BeforeFirstMarker(FirstLong.solution)>>
        /\ MathContents(files[LONG_PART2]) = <<AfterFirstMarker(FirstLong.solution)>>

(***************************************************************************)
(* C6: after a generation operation has completed, no file it wrote        *)
(* contains a placeholder token.                                           *)
(***************************************************************************)
HasPlaceholder(text) == \E i \in 1..Len(text) : text[i] \in Placeholders

C6_NoPlaceholderLeft ==
    (last.op \in GenOps /\ last.status = "ok") =>
        \A f \in Range(written) : ~HasPlaceholder(files[f])

(***************************************************************************)
(* C7: a generation operation called again, right after it completed, with *)
(* the same arguments on the same context and resource files, leaves every *)
(* file and directory exactly as the first call left it.                   *)
(***************************************************************************)
C7_Idempotent ==
    [][last'.repeat => (files' = files /\ dirs' = dirs)]_vars

\* generate_standalone() called twice in a row in watch mode
C7_Witness ==
    /\ last.repeat
    /\ last.op = "generate_standalone"
    /\ last.arg = <<"watch", "dark">>
    /\ tasks # <<>>
    /\ Exists(files, OUTPUT_PATH)

(***************************************************************************)
(* C9: a generation operation that fails on a missing template or style    *)
(* sheet has written nothing: no file was created or overwritten and no    *)
(* directory was created.                                                  *)
(***************************************************************************)
C9_FailsBeforeAnyWrite ==
    [][(last'.op \in GenOps /\ last'.status = "error")
          => (files' = files /\ dirs' = dirs)]_vars

(***************************************************************************)
(* C11: with the style sheet in place, one generate_density_variants()     *)
(* call completes without error for every task list and writes between     *)
(* zero and three files.                                                   *)
(***************************************************************************)
C11_AtMostThreeFiles ==
    last.op = "generate_density_variants" =>
        /\ last.status = "ok"
        /\ Len(written) \in 0..3

(***************************************************************************)
(* C11, amended: the call completes without error and writes between zero  *)
(* and four files, each of the four variant files at most once.            *)
(***************************************************************************)
C11_AtMostFourFiles ==
    last.op = "generate_density_variants" =>
        /\ last.status = "ok"
        /\ Len(written) \in 0..4
        /\ Cardinality(Range(written)) = Len(written)
        /\ Range(written) \subseteq VariantFiles

\* two short tasks, a medium and a long one: all four files in one call
C11_Witness ==
    /\ Returned("generate_density_variants")
    /\ Len(PlacesOf("short")) = 2
    /\ Len(PlacesOf("medium")) = 1
    /\ Len(PlacesOf("long")) = 1
    /\ written = <<COMBINED_SHORT, MEDIUM_SINGLE, LONG_PART1, LONG_PART2>>

(***************************************************************************)
(* C12: the document generate_standalone() leaves.  In watch mode it has   *)
(* no style-sheet link, holds the text of styles.css inline, carries the   *)
(* class theme-<theme> on body and holds the text of watch_styles.css      *)
(* inline; in standard mode it has no link, holds the text of styles.css   *)
(* inline and its body tag is the template's.                              *)
(***************************************************************************)
InlineStyle(css_content) == <<"<style>", NEWLINE>> \o css_content \o <<NEWLINE, "</style>">>

ThemedBody(theme) == <<"<body class=\"theme-">> \o theme \o <<"\">">>

InlinesSheet(text, path) == Exists(files, path) /\ Contains(text, InlineStyle(files[path]))

C12_StandaloneInlines ==
    Returned("generate_standalone") =>
        LET out == files[OUTPUT_PATH]
            theme == Tail(last.arg)
        IN  /\ ~Contains(out, <<CSS_LINK>>)
            /\ InlinesSheet(out, STYLES_PATH)
            /\ last.arg[1] = "watch" =>
                  /\ Contains(out, ThemedBody(theme))
                  /\ ~Contains(out, <<BODY_TAG>>)
                  /\ InlinesSheet(out, WATCH_STYLES_PATH)
            /\ last.arg[1] = "standard" =>
                  /\ Contains(out, <<BODY_TAG>>)
                  /\ ~Contains(out, ThemedBody(theme))

(***************************************************************************)
(* C13: the auto-fit loop terminates.  The font scales it sets are 98, 96, *)
(* ..., each 2 below the one before, none below 40 and at most 30 of them; *)
(* every evaluation of the loop condition either sets the next scale or    *)
(* ends the loop, and at 40 it ends the loop, overflow or not.             *)
(***************************************************************************)
ShrinkSteps == Len(body_fontSize)

C13_Scales ==
    /\ ShrinkSteps <= 30
    /\ \A i \in 1..ShrinkSteps :
          /\ body_fontSize[i] = 100 - 2 * i
          /\ body_fontSize[i] >= 40
    /\ running => fontSize[1] = 100 - 2 * ShrinkSteps

C13_LoopTerminates ==
    /\ []C13_Scales
    /\ [][running =>
            /\ running' => ShrinkSteps' = ShrinkSteps + 1
            /\ fontSize[1] = 40 => ~running']_vars

\* the loop has ended at 40 after 30 steps, the container still overflowing
C13_Witness ==
    /\ ~running
    /\ calls = 1
    /\ ShrinkSteps = 30
    /\ body_fontSize[30] = 40
    /\ overflow

(***************************************************************************)
(* C14: when the shrink loop runs.  With the container found and MathJax   *)
(* present, a shrink step has happened only after the startup promise has  *)
(* resolved and the timer set then has elapsed; with MathJax absent        *)
(* autoFit is called in the load handler itself; without the container     *)
(* autoFit is never called; and autoFit is called at most once per load.   *)
(***************************************************************************)
C14_WhenTheLoopRuns ==
    /\ (container /\ MathJax /\ (ShrinkSteps > 0 \/ calls > 0)) =>
          /\ promise = "resolved"
          /\ Len(timeout) = 1
          /\ timeout[1].delay = 500
          /\ timeout[1].elapsed
    /\ (container /\ ~MathJax) => (calls = IF loaded THEN 1 ELSE 0)
    /\ ~container => (calls = 0 /\ ShrinkSteps = 0)
    /\ calls <= 1

\* MathJax present: the loop shrinks after the promise and the timer
C14_Witness ==
    /\ container
    /\ MathJax
    /\ promise = "resolved"
    /\ timeout # <<>>
    /\ timeout[1].elapsed
    /\ ShrinkSteps = 2
    /\ running

(***************************************************************************)
(* C15: no tolerated input makes a generation operation fail.  With a      *)
(* template holding any subset of the tokens, a task of unknown category   *)
(* and a long task without split marker, generate() and                    *)
(* generate_standalone() return and write the page, in which every token   *)
(* of generate() the template holds is filled with its value, the value of *)
(* a token the template lacks is absent, and a token generate() does not   *)
(* know stays; generate_density_variants() returns and writes the files of *)
(* the medium and the long bucket.                                         *)
(***************************************************************************)
TemplateHas(p) == Contains(files[TEMPLATE_PATH], <<p>>)

C15_TolerableInputs ==
    last.op \in GenOps =>
        /\ last.status = "ok"
        /\ last.op \in {"generate", "generate_standalone"} =>
              /\ OUTPUT_PATH \in Range(written)
              /\ LET out == files[OUTPUT_PATH]
                 IN  /\ \A p \in Placeholders \ {PH_CONTENT} : ~Contains(out, <<p>>)
                     /\ Contains(out, title) <=> TemplateHas(PH_TITLE)
                     /\ Contains(out, author) <=> TemplateHas(PH_AUTHOR)
                     /\ Contains(out, date) <=> TemplateHas(PH_DATE)
                     /\ tasks # <<>> =>
                           (Contains(out, tasks_html(tasks)) <=> TemplateHas(PH_TASKS))
                     /\ custom_styles # <<>> =>
                           (Contains(out, custom_styles) <=> TemplateHas(PH_CUSTOM_STYLES))
                     /\ Contains(out, <<PH_CONTENT>>) <=> TemplateHas(PH_CONTENT)
        /\ last.op = "generate_density_variants" =>
              /\ Range(written) =
                    (IF PlacesOf("medium") # <<>> THEN {MEDIUM_SINGLE} ELSE {})
                    \cup (IF PlacesOf("long") # <<>> THEN {LONG_PART1, LONG_PART2} ELSE {})
              /\ PlacesOf("long") # <<>> =>
                    /\ MathContents(files[LONG_PART1]) = << <<"a">> >>
                    /\ MathContents(files[LONG_PART2]) = << <<"Continued...">> >>

\* a page generated from a template without {{TITLE}} and {{TASKS}} that
\* holds an unknown token, for a task of unknown category
C15_Witness ==
    /\ Returned("generate")
    /\ ~TemplateHas(PH_TITLE)
    /\ ~TemplateHas(PH_TASKS)
    /\ TemplateHas(PH_AUTHOR)
    /\ TemplateHas(PH_CONTENT)
    /\ Len(tasks) = 1
    /\ tasks[1].category = "medium"
    /\ Contains(files[OUTPUT_PATH], author)
    /\ ~Contains(files[OUTPUT_PATH], title)

(***************************************************************************)
(* C16: a generation call leaves title, author, date, the task list and    *)
(* the style fragment as they were; a step that changes any of them is an  *)
(* add_task() or add_custom_styles() call; and what a generation call has  *)
(* written is made from all tasks added up to the call: the page renders   *)
(* every task, the variant files are those of the buckets of the list.     *)
(***************************************************************************)
C16_ReflectsTasks ==
    /\ (Returned("generate") \/ Returned("generate_standalone")) =>
          Range(RenderedNumbers(files[OUTPUT_PATH]))
            = {Num(tasks[k].number) : k \in 1..Len(tasks)}
    /\ Returned("generate_density_variants") =>
          Range(written) =
            (IF Len(PlacesOf("short")) >= 2 THEN {COMBINED_SHORT} ELSE {})
            \cup (IF Len(PlacesOf("long")) >= 1 THEN {LONG_PART1, LONG_PART2} ELSE {})

C16_ContextFrame ==
    /\ []C16_ReflectsTasks
    /\ [][/\ last'.op \in GenOps => ctx' = ctx
          /\ ctx' # ctx => last'.op \in {"add_task", "add_custom_styles"}]_vars

\* a task added between two generation calls appears in the second page
C16_Witness ==
    /\ Returned("generate_standalone")
    /\ Len(tasks) = 2
    /\ custom_styles # <<>>
    /\ Exists(files, LONG_PART1)
    /\ ~Exists(files, COMBINED_SHORT)
    /\ RenderedNumbers(files[OUTPUT_PATH]) = <<"2", "1">>

(***************************************************************************)
(* The style block of a page: the text between <style> and </style>, which *)
(* is where the template has {{CUSTOM_STYLES}}.                            *)
(***************************************************************************)
StyleBlock(text) ==
    LET open == Least(Positions(text, "<style>"), 1)
    IN  SubSeq(text, open + 1, Least(Positions(text, "</style>"), open) - 1)

\* generate() puts exactly the accumulated fragment at {{CUSTOM_STYLES}};
\* before any add_custom_styles() call the fragment is empty
SubstitutesFragment ==
    /\ last.op = "__init__" => custom_styles = <<>>
    /\ Returned("generate") => StyleBlock(files[OUTPUT_PATH]) = custom_styles

(***************************************************************************)
(* C17: the accumulated style fragment is the fragments joined by          *)
(* newlines: the first add_custom_styles(s) call makes it s, every later   *)
(* one appends a newline and s; generate() substitutes exactly this text   *)
(* for {{CUSTOM_STYLES}}, and the empty text when there was no call.       *)
(***************************************************************************)
C17_JoinedByNewlines ==
    /\ []SubstitutesFragment
    /\ [][last'.op = "add_custom_styles" =>
            custom_styles' = IF custom_styles = <<>> THEN last'.arg
                             ELSE custom_styles \o <<"\n">> \o last'.arg]_vars

(***************************************************************************)
(* C19: inserted values are not scanned again.  The page generate() writes *)
(* is the template with every placeholder occurrence replaced by its own   *)
(* value and nothing else changed, whatever tokens the values hold; a      *)
(* variant page has the pane content once, at the {{CONTENT}} slot of the  *)
(* template, the style sheet and the solution as they were supplied.       *)
(***************************************************************************)
ValueOf(lexeme) ==
    IF lexeme = PH_TITLE THEN title
    ELSE IF lexeme = PH_AUTHOR THEN author
    ELSE IF lexeme = PH_DATE THEN date
    ELSE IF lexeme = PH_CUSTOM_STYLES THEN custom_styles
    ELSE IF lexeme = PH_TASKS THEN tasks_html(tasks)
    ELSE <<lexeme>>

\* every placeholder occurrence of the template replaced by its value, at once
FilledAtOnce(template) == Join([i \in 1..Len(template) |-> ValueOf(template[i])], <<>>)

C19_NoRescan ==
    /\ Returned("generate") =>
          files[OUTPUT_PATH] = FilledAtOnce(files[TEMPLATE_PATH])
    /\ Returned("generate_density_variants") =>
          \A f \in Range(written) :
              /\ Cardinality(Positions(files[f], "<div class=\"task-id\">")) = 1
              /\ Contains(files[f],
                          <<"<style>">> \o files[WATCH_STYLES_PATH] \o <<"</style>">>)
              /\ MathContents(files[f]) = <<tasks[PlacesOf("medium")[1]].solution>>

(***************************************************************************)
(* C18: medium_single.html is made from the first medium task and the two  *)
(* long_split files from the first long task, in add_task() order: each    *)
(* shows that task's number and solution.  Further medium and long tasks   *)
(* raise nothing and change nothing: the call writes the same files with   *)
(* the same text as for the list without them.                             *)
(***************************************************************************)
\* the task list without the medium and long tasks after the first of each
FirstOfBucket ==
    LET keep == {i \in 1..Len(tasks) :
                    \/ tasks[i].category = "short"
                    \/ i = PlacesOf(tasks[i].category)[1]}
    IN  [k \in 1..Cardinality(keep) |-> tasks[Ascending(keep)[k]]]

C18_FirstOfBucketOnly ==
    last.op = "generate_density_variants" =>
        /\ last.status = "ok"
        /\ PlacesOf("medium") # <<>> =>
              LET t == tasks[PlacesOf("medium")[1]]
              IN  /\ MathContents(files[MEDIUM_SINGLE]) = <<t.solution>>
                  /\ Contains(files[MEDIUM_SINGLE],
                              <<"<div class=\"task-id\">", "Task ", Num(t.number), "</div>">>)
        /\ PlacesOf("long") # <<>> =>
              LET t == tasks[PlacesOf("long")[1]]
              IN  /\ MathContents(files[LONG_PART1]) = <<t.solution>>
                  /\ Contains(files[LONG_PART1],
                              <<"<div class=\"task-id\">", "Task ", Num(t.number), " (1/2)">>)
                  /\ Contains(files[LONG_PART2],
                              <<"<div class=\"task-id\">", "Task ", Num(t.number), " (2/2)">>)
        /\ LET trimmed == generate_density_variants(
                              AllResources, {},
                              Context(title, author, date, FirstOfBucket, custom_styles),
                              last.arg)
           IN  /\ trimmed.written = written
               /\ \A f \in Range(written) : trimmed.files[f] = files[f]

\* two medium tasks with different solutions, then a long one
C18_Witness ==
    /\ Returned("generate_density_variants")
    /\ [i \in 1..Len(tasks) |-> tasks[i].category] = <<"medium", "medium", "long">>
    /\ tasks[1].solution = <<"a">>
    /\ tasks[2].solution = <<"b">>
    /\ MathContents(files[MEDIUM_SINGLE]) = << <<"a">> >>

(***************************************************************************)
(* C20: after a generate_density_variants() call, whatever calls with      *)
(* whatever task lists went before into the same directory, the variant    *)
(* files that exist are exactly the files this call wrote.                 *)
(***************************************************************************)
VariantsPresent == {f \in VariantFiles : Exists(files, f)}

C20_NoStaleFile ==
    Returned("generate_density_variants") => VariantsPresent = Range(written)

(***************************************************************************)
(* C20, amended: a generate_density_variants() call leaves every file it   *)
(* wrote with the text made from the current task list, and every other    *)
(* file, the variant files of earlier calls included, as it was: it        *)
(* removes nothing.                                                        *)
(***************************************************************************)
C20_OverwritesOnly ==
    [][(last'.op = "generate_density_variants" /\ last'.status = "ok") =>
          LET fresh == generate_density_variants(AllResources, {}, self, last'.arg)
          IN  /\ Range(written') = Range(fresh.written)
              /\ \A f \in Range(written') :
                    Exists(files', f) /\ files'[f] = fresh.files[f]
              /\ \A f \in DOMAIN files \ Range(written') :
                    Exists(files', f) /\ files'[f] = files[f]]_vars

\* a medium task's file outlives a later call for a long task alone
C20_Witness ==
    /\ Returned("generate_density_variants")
    /\ Len(tasks) = 1
    /\ tasks[1].category = "long"
    /\ Range(written) = {LONG_PART1, LONG_PART2}
    /\ VariantsPresent = {MEDIUM_SINGLE, LONG_PART1, LONG_PART2}

====
